---- MODULE Spec2Model ----
(***************************************************************************)
(* Model of debounce(fn, wait, options) of src/src/index.ts: one wrapper,  *)
(* its closure variables, the timer primitive, the AbortSignal and the     *)
(* promises handed out by the async strategy.                              *)
(***************************************************************************)
EXTENDS Integers, Sequences, FiniteSets, TLC

\* ---------------------------------------------------------------- bounds
MaxCalls == 2      \* invocations of the wrapper in one behaviour
NumInputs == 2     \* distinct (receiver, arguments) pairs a caller may use
MaxRuns == 3       \* executions of the target after which flush is not called

\* ---------------------------------------------------------------- values
\* Every JavaScript value of the model is a record [k, n].
Val(k, n) == [k |-> k, n |-> n]
Undefined == Val("undef", 0)
\* a caller's receiver and argument list
Inputs == {[this |-> Val("obj", i), args |-> Val("arg", i)] : i \in 1..NumInputs}
Reasons == {Val("abort", 1)}
\* the value, resp. the error, produced by the n-th execution of the target
RetOf(n) == Val("ret", n)
ErrOf(n) == Val("err", n)
Outcomes == {"ok", "fail"}

NoTimer == 0       \* timeoutId === undefined
NoExec == 0        \* leadingValue === undefined

\* what an operation handed back to its caller
Ret(kind, v, p) == [kind |-> kind, v |-> v, p |-> p]
RetNone == Ret("none", Undefined, 0)

\* the targets a caller may wrap: a plain function returning a value, a
\* function declared async, a plain function that returns a promise
Targets == {"plain", "AsyncFunction", "promiseReturning"}

\* the test of lines 14-16: the constructor name, or the toString tag, of the
\* target is AsyncFunction
isAsyncFunction(f) == f = "AsyncFunction"

VARIABLES
  fn,                             \* the kind of target that was wrapped
  isAsync, immediate, signal,     \* fixed at construction (signal: is one given)
  timeoutId, lastArgs, lastThis,  \* closure variables, both strategies
  promiseHandlers, leadingValue,  \* async-specific
  result,                         \* sync-specific
  timers,                         \* the timer primitive: handles that will still fire
  aborted, reason, listening,     \* the AbortSignal and its 'abort' listener list
  promises,                       \* promises created by the wrapper
  execs,                          \* executions of an async target
  calls,                          \* every invocation of the target, in order
  win, wlog, lastInv, nInvokes,   \* history: windows and invocation numbers
  op, ret,                        \* the last operation and what it returned
  syncW, asyncW                   \* a sync and an async wrapper driven together

cfg == <<fn, isAsync, immediate, signal>>
vars == <<fn, isAsync, immediate, signal, timeoutId, lastArgs, lastThis,
          promiseHandlers, leadingValue, result, timers, aborted, reason,
          listening, promises, execs, calls, win, wlog, lastInv, nInvokes,
          op, ret, syncW, asyncW>>

\* The mutable state as one record, so that a handler can call another.
Cur ==
  [isAsync |-> isAsync, timeoutId |-> timeoutId, lastArgs |-> lastArgs, lastThis |-> lastThis,
   promiseHandlers |-> promiseHandlers, leadingValue |-> leadingValue,
   result |-> result, timers |-> timers, aborted |-> aborted,
   reason |-> reason, listening |-> listening, promises |-> promises,
   execs |-> execs, calls |-> calls, win |-> win, wlog |-> wlog,
   lastInv |-> lastInv, nInvokes |-> nInvokes, op |-> op, ret |-> ret]

Commit(s) ==
  /\ timeoutId' = s.timeoutId
  /\ lastArgs' = s.lastArgs
  /\ lastThis' = s.lastThis
  /\ promiseHandlers' = s.promiseHandlers
  /\ leadingValue' = s.leadingValue
  /\ result' = s.result
  /\ timers' = s.timers
  /\ aborted' = s.aborted
  /\ reason' = s.reason
  /\ listening' = s.listening
  /\ promises' = s.promises
  /\ execs' = s.execs
  /\ calls' = s.calls
  /\ win' = s.win
  /\ wlog' = s.wlog
  /\ lastInv' = s.lastInv
  /\ nInvokes' = s.nInvokes
  /\ op' = s.op
  /\ ret' = s.ret
  /\ UNCHANGED <<cfg, syncW, asyncW>>

\* ------------------------------------------------------------ history
\* An operation starts: it is the last one, and has returned nothing yet.
\* What it found is kept with it: the timer handle, the number of executions
\* of the target so far, whether the token was aborted, the queue of waiting
\* callers; for an invocation, the receiver and the arguments of the caller.
Begin(s, name, context, args) ==
  [s EXCEPT !.op = [name |-> name, timer |-> s.timeoutId,
                    nCalls |-> Len(s.calls), aborted |-> s.aborted,
                    queued |-> s.promiseHandlers,
                    inThis |-> context, inArgs |-> args],
            !.ret = RetNone]

\* The open window is closed by `how`.
CloseWindow(s, how) ==
  IF s.win > 0 /\ s.wlog[s.win].closedBy = "open"
  THEN [s EXCEPT !.wlog[s.win].closedBy = how,
                 !.wlog[s.win].callsAtClose = Len(s.calls),
                 !.wlog[s.win].invAtClose = s.lastInv]
  ELSE s

\* An invocation resets the timer: it opens a window or extends the open one.
NoteInvoke(s, context, args) ==
  LET e == [args |-> args, this |-> context, inv |-> s.nInvokes] IN
  IF s.timeoutId = NoTimer
  THEN [s EXCEPT !.win = @ + 1,
                 !.wlog = Append(@, [invokes |-> <<e>>, closedBy |-> "open",
                                     callsAtClose |-> 0, invAtClose |-> 0,
                                     clean |-> TRUE])]
  ELSE [s EXCEPT !.wlog[s.win].invokes = Append(@, e)]

\* clear, flush or abort happened inside the open window
Touch(s) ==
  IF s.win > 0 /\ s.wlog[s.win].closedBy = "open"
  THEN [s EXCEPT !.wlog[s.win].clean = FALSE]
  ELSE s

\* ------------------------------------------------------------ the timer primitive
setTimeout(s, old) ==
  LET id == CHOOSE i \in 1..3 : i \notin s.timers /\ i # old
  IN  [s EXCEPT !.timers = @ \cup {id}, !.timeoutId = id]

clearTimeout(s, id) == [s EXCEPT !.timers = @ \ {id}]

\* ------------------------------------------------------------ the target
\* fn.apply(context, args): the call is recorded; what it produces is RetOf or
\* ErrOf of its position in the record. A sync target may throw (o = "fail");
\* an async function never throws, it returns a promise.
Apply(s, context, args, inv, trigger, o) ==
  [s EXCEPT !.calls = Append(@, [args |-> args, this |-> context, inv |-> inv,
                                 trigger |-> trigger, win |-> s.win,
                                 threw |-> (o = "fail")])]

\* ------------------------------------------------------------ run
\* run() whose sync branch calls the target and drops what it returns
run_dropResult(s, trigger, o) ==
  LET args == s.lastArgs
      context == s.lastThis
      inv == s.lastInv
      s1 == [s EXCEPT !.lastArgs = Undefined, !.lastThis = Undefined,
                      !.lastInv = 0]
  IN
  IF s.isAsync
  THEN LET currentHandlers == s1.promiseHandlers
           s2 == [s1 EXCEPT !.promiseHandlers = <<>>, !.leadingValue = NoExec]
           s3 == Apply(s2, context, args, inv, trigger, "ok")
       IN  [s3 EXCEPT !.execs = Append(@, [call |-> Len(s3.calls),
                                           handlers |-> currentHandlers,
                                           done |-> FALSE, outcome |-> Undefined,
                                           trigger |-> trigger, win |-> s3.win])]
  ELSE LET s2 == Apply(s1, context, args, inv, trigger, o)
           n == Len(s2.calls)
       IN  IF o = "fail"
           THEN [s2 EXCEPT !.ret = Ret("throw", ErrOf(n), 0)]
           ELSE s2

\* run() whose async branch hands the queue over and forgets to empty it
run_keepQueue(s, trigger, o) ==
  LET args == s.lastArgs
      context == s.lastThis
      inv == s.lastInv
      s1 == [s EXCEPT !.lastArgs = Undefined, !.lastThis = Undefined,
                      !.lastInv = 0]
  IN
  IF s.isAsync
  THEN LET currentHandlers == s1.promiseHandlers
           s2 == [s1 EXCEPT !.leadingValue = NoExec]
           s3 == Apply(s2, context, args, inv, trigger, "ok")
       IN  [s3 EXCEPT !.execs = Append(@, [call |-> Len(s3.calls),
                                           handlers |-> currentHandlers,
                                           done |-> FALSE, outcome |-> Undefined,
                                           trigger |-> trigger, win |-> s3.win])]
  ELSE LET s2 == Apply(s1, context, args, inv, trigger, o)
           n == Len(s2.calls)
       IN  IF o = "fail"
           THEN [s2 EXCEPT !.ret = Ret("throw", ErrOf(n), 0)]
           ELSE [s2 EXCEPT !.result = RetOf(n)]

run(s, trigger, o) ==
  LET args == s.lastArgs
      context == s.lastThis
      inv == s.lastInv
      s1 == [s EXCEPT !.lastArgs = Undefined, !.lastThis = Undefined,
                      !.lastInv = 0]
  IN
  IF s.isAsync
  THEN LET currentHandlers == s1.promiseHandlers
           s2 == [s1 EXCEPT !.promiseHandlers = <<>>, !.leadingValue = NoExec]
           s3 == Apply(s2, context, args, inv, trigger, "ok")
       IN  [s3 EXCEPT !.execs = Append(@, [call |-> Len(s3.calls),
                                           handlers |-> currentHandlers,
                                           done |-> FALSE, outcome |-> Undefined,
                                           trigger |-> trigger, win |-> s3.win])]
  ELSE LET s2 == Apply(s1, context, args, inv, trigger, o)
           n == Len(s2.calls)
       IN  IF o = "fail"
           THEN [s2 EXCEPT !.ret = Ret("throw", ErrOf(n), 0)]
           ELSE [s2 EXCEPT !.result = RetOf(n)]

\* ------------------------------------------------------------ later
\* later() with its test of `immediate` inverted
later_inverted(s, o) ==
  LET s1 == CloseWindow([s EXCEPT !.timeoutId = NoTimer], "timer")
  IN  IF immediate THEN run(s1, "timer", o)
      ELSE IF s.isAsync THEN [s1 EXCEPT !.leadingValue = NoExec]
      ELSE s1

later(s, o) ==
  LET s1 == CloseWindow([s EXCEPT !.timeoutId = NoTimer], "timer")
  IN  IF ~immediate THEN run(s1, "timer", o)
      ELSE IF s.isAsync THEN [s1 EXCEPT !.leadingValue = NoExec]
      ELSE s1

\* ------------------------------------------------------------ sync strategy
\* debouncedSync with callNow = immediate, whatever the timer handle
debouncedSync_alwaysNow(s, context, args, o) ==
  LET s0 == [s EXCEPT !.nInvokes = @ + 1]
      s1 == [s0 EXCEPT !.lastArgs = args, !.lastThis = context,
                       !.lastInv = s0.nInvokes]
      callNow == immediate
      old == s1.timeoutId
      s2 == NoteInvoke(s1, context, args)
      s3 == IF old # NoTimer THEN clearTimeout(s2, old) ELSE s2
      s4 == setTimeout(s3, old)
      s5 == IF callNow THEN run(s4, "leading", o) ELSE s4
  IN  IF s5.ret.kind = "throw" THEN s5
      ELSE [s5 EXCEPT !.ret = Ret("value", s5.result, 0)]

\* debouncedSync that schedules the new timer without cancelling the old one
debouncedSync_noCancel(s, context, args, o) ==
  LET s0 == [s EXCEPT !.nInvokes = @ + 1]
      s1 == [s0 EXCEPT !.lastArgs = args, !.lastThis = context,
                       !.lastInv = s0.nInvokes]
      callNow == immediate /\ s1.timeoutId = NoTimer
      old == s1.timeoutId
      s2 == NoteInvoke(s1, context, args)
      s4 == setTimeout(s2, old)
      s5 == IF callNow THEN run(s4, "leading", o) ELSE s4
  IN  IF s5.ret.kind = "throw" THEN s5
      ELSE [s5 EXCEPT !.ret = Ret("value", s5.result, 0)]

debouncedSync(s, context, args, o) ==
  LET s0 == [s EXCEPT !.nInvokes = @ + 1]
      s1 == [s0 EXCEPT !.lastArgs = args, !.lastThis = context,
                       !.lastInv = s0.nInvokes]
      callNow == immediate /\ s1.timeoutId = NoTimer
      old == s1.timeoutId
      s2 == NoteInvoke(s1, context, args)
      s3 == IF old # NoTimer THEN clearTimeout(s2, old) ELSE s2
      s4 == setTimeout(s3, old)
      s5 == IF callNow THEN run(s4, "leading", o) ELSE s4
  IN  IF s5.ret.kind = "throw" THEN s5
      ELSE [s5 EXCEPT !.ret = Ret("value", s5.result, 0)]

\* clear() that cancels the timer and forgets to reset the handle
clearSync_keepHandle(s) ==
  LET s1 == IF s.timeoutId # NoTimer THEN clearTimeout(s, s.timeoutId) ELSE s
      s2 == CloseWindow(s1, "clear")
  IN  [s2 EXCEPT !.lastArgs = Undefined, !.lastThis = Undefined, !.lastInv = 0]

clearSync(s) ==
  LET s1 == IF s.timeoutId # NoTimer THEN clearTimeout(s, s.timeoutId) ELSE s
      s2 == CloseWindow(s1, "clear")
  IN  [s2 EXCEPT !.timeoutId = NoTimer, !.lastArgs = Undefined,
                 !.lastThis = Undefined, !.lastInv = 0]

flushSync(s, o) ==
  IF s.timeoutId = NoTimer THEN s
  ELSE LET s1 == run(Touch(s), "flush", o)
       IN  IF s1.ret.kind = "throw" THEN s1
           ELSE clearSync(CloseWindow(s1, "flush"))

\* ------------------------------------------------------------ async strategy
NewPromise(s, kind) ==
  [s EXCEPT !.promises = Append(@, [st |-> "pending", v |-> Undefined,
                                    win |-> s.win, kind |-> kind, by |-> 0,
                                    cleared |-> FALSE])]

\* handler.resolve / handler.reject: a settled promise stays as it is
SettleAll(s, ps, st, v, by) ==
  [s EXCEPT !.promises =
     [p \in 1..Len(s.promises) |->
        IF (\E i \in 1..Len(ps) : ps[i] = p) /\ s.promises[p].st = "pending"
        THEN [s.promises[p] EXCEPT !.st = st, !.v = v, !.by = by]
        ELSE s.promises[p]]]

\* onAbort that rejects the queue and leaves the timer running
onAbort_keepTimer(s) ==
  IF s.aborted
  THEN [SettleAll(s, s.promiseHandlers, "rejected", s.reason, 0)
          EXCEPT !.promiseHandlers = <<>>]
  ELSE s

\* onAbort that rejects every promise still pending, queued or handed off
onAbort_rejectAll(s) ==
  LET s1 == IF s.timeoutId # NoTimer THEN clearTimeout(s, s.timeoutId) ELSE s
      s2 == CloseWindow(Touch(s1), "abort")
      s3 == [s2 EXCEPT !.timeoutId = NoTimer]
  IN  IF s3.aborted
      THEN [SettleAll(s3, [p \in 1..Len(s3.promises) |-> p], "rejected",
                      s3.reason, 0)
              EXCEPT !.promiseHandlers = <<>>]
      ELSE s3

onAbort(s) ==
  LET s1 == IF s.timeoutId # NoTimer THEN clearTimeout(s, s.timeoutId) ELSE s
      s2 == CloseWindow(Touch(s1), "abort")
      s3 == [s2 EXCEPT !.timeoutId = NoTimer]
  IN  IF s3.aborted
      THEN [SettleAll(s3, s3.promiseHandlers, "rejected", s3.reason, 0)
              EXCEPT !.promiseHandlers = <<>>]
      ELSE s3

\* debouncedAsync that looks at signal.aborted after it has reset the timer
debouncedAsync_lateCheck(s, context, args) ==
  LET s0 == [s EXCEPT !.nInvokes = @ + 1]
      s1 == [s0 EXCEPT !.lastArgs = args, !.lastThis = context,
                       !.lastInv = s0.nInvokes]
      callNow == immediate /\ s1.timeoutId = NoTimer
      old == s1.timeoutId
      s2 == NoteInvoke(s1, context, args)
      s3 == IF old # NoTimer THEN clearTimeout(s2, old) ELSE s2
      s4 == setTimeout(s3, old)
  IN
  IF signal /\ s4.aborted THEN [s4 EXCEPT !.ret = Ret("rejected", s4.reason, 0)]
  ELSE
  LET s5 == IF callNow
            THEN LET a == Apply(s4, s4.lastThis, s4.lastArgs, s4.lastInv,
                                "leading", "ok")
                     b == [a EXCEPT !.execs =
                             Append(@, [call |-> Len(a.calls), handlers |-> <<>>,
                                        done |-> FALSE, outcome |-> Undefined,
                                        trigger |-> "leading", win |-> a.win])]
                 IN  [b EXCEPT !.leadingValue = Len(b.execs)]
            ELSE s4
      s6 == NewPromise(s5, "invoke")
      p == Len(s6.promises)
      s7 == IF callNow
            THEN IF s6.leadingValue # NoExec
                 THEN [s6 EXCEPT !.execs[s6.leadingValue].handlers = Append(@, p)]
                 ELSE s6
            ELSE LET a == [s6 EXCEPT !.promiseHandlers = Append(@, p)]
                 IN  IF signal /\ Len(a.promiseHandlers) = 1
                     THEN [a EXCEPT !.listening = TRUE]
                     ELSE a
  IN  [s7 EXCEPT !.ret = Ret("promise", Undefined, p)]

debouncedAsync(s, context, args) ==
  LET s0 == [s EXCEPT !.nInvokes = @ + 1]
      s1 == [s0 EXCEPT !.lastArgs = args, !.lastThis = context,
                       !.lastInv = s0.nInvokes]
  IN
  IF signal /\ s1.aborted THEN [s1 EXCEPT !.ret = Ret("rejected", s1.reason, 0)]
  ELSE
  LET callNow == immediate /\ s1.timeoutId = NoTimer
      old == s1.timeoutId
      s2 == NoteInvoke(s1, context, args)
      s3 == IF old # NoTimer THEN clearTimeout(s2, old) ELSE s2
      s4 == setTimeout(s3, old)
      s5 == IF callNow
            THEN LET a == Apply(s4, s4.lastThis, s4.lastArgs, s4.lastInv, "leading", "ok")
                     b == [a EXCEPT !.execs =
                             Append(@, [call |-> Len(a.calls), handlers |-> <<>>,
                                        done |-> FALSE, outcome |-> Undefined,
                                        trigger |-> "leading", win |-> a.win])]
                 IN  [b EXCEPT !.leadingValue = Len(b.execs)]
            ELSE s4
      s6 == NewPromise(s5, "invoke")
      p == Len(s6.promises)
      s7 == IF callNow
            THEN IF s6.leadingValue # NoExec
                 THEN [s6 EXCEPT !.execs[s6.leadingValue].handlers = Append(@, p)]
                 ELSE s6
            ELSE LET a == [s6 EXCEPT !.promiseHandlers = Append(@, p)]
                 IN  IF signal /\ Len(a.promiseHandlers) = 1
                     THEN [a EXCEPT !.listening = TRUE]
                     ELSE a
  IN  [s7 EXCEPT !.ret = Ret("promise", Undefined, p)]

\* history: the promises that are in the queue when clear() drops it
MarkCleared(s) ==
  [s EXCEPT !.promises =
     [p \in 1..Len(s.promises) |->
        IF \E i \in 1..Len(s.promiseHandlers) : s.promiseHandlers[i] = p
        THEN [s.promises[p] EXCEPT !.cleared = TRUE]
        ELSE s.promises[p]]]

\* clear() that resets the handle and forgets to cancel the timer
clearAsync_keepTimer(s) ==
  LET s2 == MarkCleared(CloseWindow(s, "clear"))
  IN  [s2 EXCEPT !.timeoutId = NoTimer, !.lastArgs = Undefined,
                 !.lastThis = Undefined, !.lastInv = 0,
                 !.promiseHandlers = <<>>, !.leadingValue = NoExec]

\* clear() that forgets to empty the queue of waiting callers
clearAsync_keepQueue(s) ==
  LET s1 == IF s.timeoutId # NoTimer THEN clearTimeout(s, s.timeoutId) ELSE s
      s2 == MarkCleared(CloseWindow(s1, "clear"))
  IN  [s2 EXCEPT !.timeoutId = NoTimer, !.lastArgs = Undefined,
                 !.lastThis = Undefined, !.lastInv = 0,
                 !.leadingValue = NoExec]

clearAsync(s) ==
  LET s1 == IF s.timeoutId # NoTimer THEN clearTimeout(s, s.timeoutId) ELSE s
      s2 == MarkCleared(CloseWindow(s1, "clear"))
  IN  [s2 EXCEPT !.timeoutId = NoTimer, !.lastArgs = Undefined,
                 !.lastThis = Undefined, !.lastInv = 0,
                 !.promiseHandlers = <<>>, !.leadingValue = NoExec]

flushAsync(s, o) ==
  IF s.timeoutId = NoTimer THEN [s EXCEPT !.ret = Ret("resolved", Undefined, 0)]
  ELSE LET s1 == NewPromise(Touch(s), "flush")
           p == Len(s1.promises)
           s2 == [s1 EXCEPT !.promiseHandlers = Append(@, p)]
           s3 == run(s2, "flush", o)
           s4 == clearAsync(CloseWindow(s3, "flush"))
       IN  [s4 EXCEPT !.ret = Ret("promise", Undefined, p)]

\* the awaited fn.apply(...) of execution e settles: every handler of its
\* batch (or every subscriber of the leading value) gets the one outcome
\* a settlement loop that stops after the first handler of the batch
settle_firstOnly(s, e, o) ==
  LET x == s.execs[e]
      v == IF o = "ok" THEN RetOf(x.call) ELSE ErrOf(x.call)
      st == IF o = "ok" THEN "resolved" ELSE "rejected"
      s1 == SettleAll(s, SubSeq(x.handlers, 1, 1), st, v, e)
  IN  [s1 EXCEPT !.execs[e].done = TRUE, !.execs[e].outcome = v]

settle(s, e, o) ==
  LET x == s.execs[e]
      v == IF o = "ok" THEN RetOf(x.call) ELSE ErrOf(x.call)
      st == IF o = "ok" THEN "resolved" ELSE "rejected"
      s1 == SettleAll(s, x.handlers, st, v, e)
  IN  [s1 EXCEPT !.execs[e].done = TRUE, !.execs[e].outcome = v]

\* ------------------------------------------------------------ the operations
\* the closure variables and their surroundings right after debounce() returned
Fresh(a) ==
  [isAsync |-> a, timeoutId |-> NoTimer, lastArgs |-> Undefined,
   lastThis |-> Undefined, promiseHandlers |-> <<>>, leadingValue |-> NoExec,
   result |-> Undefined, timers |-> {}, aborted |-> FALSE,
   reason |-> Undefined, listening |-> FALSE, promises |-> <<>>,
   execs |-> <<>>, calls |-> <<>>, win |-> 0, wlog |-> <<>>, lastInv |-> 0,
   nInvokes |-> 0,
   op |-> [name |-> "init", timer |-> NoTimer, nCalls |-> 0, aborted |-> FALSE,
           queued |-> <<>>, inThis |-> Undefined, inArgs |-> Undefined],
   ret |-> RetNone]

\* The sync strategy never reads `signal` (onAbort is registered by
\* debouncedAsync only), so a token is given to async wrappers only.
Init ==
  /\ fn \in Targets
  /\ isAsync = isAsyncFunction(fn)
  /\ immediate \in BOOLEAN
  /\ signal \in IF isAsync THEN BOOLEAN ELSE {FALSE}
  /\ timeoutId = NoTimer
  /\ lastArgs = Undefined
  /\ lastThis = Undefined
  /\ promiseHandlers = <<>>
  /\ leadingValue = NoExec
  /\ result = Undefined
  /\ timers = {}
  /\ aborted = FALSE
  /\ reason = Undefined
  /\ listening = FALSE
  /\ promises = <<>>
  /\ execs = <<>>
  /\ calls = <<>>
  /\ win = 0
  /\ wlog = <<>>
  /\ lastInv = 0
  /\ nInvokes = 0
  /\ op = [name |-> "init", timer |-> NoTimer, nCalls |-> 0, aborted |-> FALSE,
           queued |-> <<>>, inThis |-> Undefined, inArgs |-> Undefined]
  /\ ret = RetNone
  /\ syncW = Fresh(FALSE)
  /\ asyncW = Fresh(TRUE)

\* debounced.call(context, ...args)
Invoke(context, args, o) ==
  /\ nInvokes < MaxCalls
  /\ Commit(IF isAsync THEN debouncedAsync(Begin(Cur, "invoke", context, args), context, args)
            ELSE debouncedSync(Begin(Cur, "invoke", context, args), context, args, o))

\* the timer primitive calls later(): the handle id is live no more
TimerFire(id, o) ==
  /\ id \in timers
  /\ Commit(later([Begin(Cur, "later", Undefined, Undefined)
                     EXCEPT !.timers = @ \ {id}], o))

\* debounced.clear()
Clear ==
  Commit(IF isAsync THEN clearAsync(Begin(Cur, "clear", Undefined, Undefined))
         ELSE clearSync(Begin(Cur, "clear", Undefined, Undefined)))

\* debounced.flush()
Flush(o) ==
  /\ timeoutId = NoTimer \/ Len(calls) < MaxRuns
  /\ Commit(IF isAsync THEN flushAsync(Begin(Cur, "flush", Undefined, Undefined), o)
            ELSE flushSync(Begin(Cur, "flush", Undefined, Undefined), o))

\* controller.abort(r): the signal becomes aborted and its listeners run once
Abort(r) ==
  /\ signal
  /\ ~aborted
  /\ LET s1 == [Begin(Cur, "abort", Undefined, Undefined) EXCEPT !.aborted = TRUE, !.reason = r]
     IN  Commit(IF s1.listening THEN [onAbort(s1) EXCEPT !.listening = FALSE]
                ELSE s1)

\* the promise of an execution of the async target settles
Settle(e, o) ==
  /\ isAsync
  /\ e \in 1..Len(execs)
  /\ ~execs[e].done
  /\ Commit(settle(Begin(Cur, "settle", Undefined, Undefined), e, o))

Next ==
  \/ \E in \in Inputs, o \in Outcomes : Invoke(in.this, in.args, o)
  \/ \E id \in timers, o \in Outcomes : TimerFire(id, o)
  \/ Clear
  \/ \E o \in Outcomes : Flush(o)
  \/ \E r \in Reasons : Abort(r)
  \/ \E e \in 1..Len(execs), o \in Outcomes : Settle(e, o)

Spec == Init /\ [][Next]_vars

\* the isPending getter
isPending == timeoutId # NoTimer

\* ------------------------------------------------------------ properties
\* the executions of the target made while w was the latest window
CallsOf(w) == {i \in 1..Len(calls) : calls[i].win = w}
\* the last invocation of the wrapper that reset the timer of window w
LastInvoke(w) == wlog[w].invokes[Len(wlog[w].invokes)]
LastCall == calls[Len(calls)]

\* C1: trailing-edge mode, both strategies: while a window that saw no clear,
\* flush or abort is open the target has not been invoked for it, and once the
\* timer has fired the target has been invoked for it exactly once, by the
\* timer, with the arguments and the receiver of the window's last invocation.
C1_TrailingOnceWithLastArgs ==
  ~immediate =>
    \A w \in 1..win :
      wlog[w].clean =>
        /\ wlog[w].closedBy = "open" => CallsOf(w) = {}
        /\ wlog[w].closedBy = "timer" =>
             /\ CallsOf(w) = {wlog[w].callsAtClose + 1}
             /\ LET c == calls[wlog[w].callsAtClose + 1]
                IN  /\ c.trigger = "timer"
                    /\ c.args = LastInvoke(w).args
                    /\ c.this = LastInvoke(w).this
                    /\ c.inv = LastInvoke(w).inv

\* a window of two invocations with different arguments has elapsed
C1_Witness ==
  /\ ~immediate
  /\ \E w \in 1..win :
       /\ wlog[w].clean /\ wlog[w].closedBy = "timer"
       /\ Len(wlog[w].invokes) = 2
       /\ wlog[w].invokes[1].args # wlog[w].invokes[2].args
       /\ CallsOf(w) # {}

\* the invocation just made found the token aborted and was rejected at once
Refused == isAsync /\ signal /\ op.name = "invoke" /\ op.aborted

LeadingCallMade ==
  /\ Len(calls) = op.nCalls + 1
  /\ LastCall.trigger = "leading"
  /\ LastCall.args = op.inArgs
  /\ LastCall.this = op.inThis

TimerReset == timers = {timeoutId} /\ timeoutId # op.timer

\* C2 as stated: immediate mode, both strategies: an invocation that finds no
\* window open invokes the target at once with its own arguments and opens the
\* window; an invocation that finds the window open does not invoke the target
\* and resets the timer; the timer firing does not invoke the target.
C2_Original ==
  immediate =>
    /\ (op.name = "invoke" /\ op.timer = NoTimer) => LeadingCallMade /\ TimerReset
    /\ (op.name = "invoke" /\ op.timer # NoTimer) =>
          Len(calls) = op.nCalls /\ TimerReset
    /\ op.name = "later" => Len(calls) = op.nCalls

\* C2 amended: the same for every invocation that is not refused because the
\* token is already aborted; no invocation made while the window is open, refused
\* or not, invokes the target.
C2_ImmediateLeading ==
  immediate =>
    /\ (op.name = "invoke" /\ op.timer = NoTimer /\ ~Refused) =>
          LeadingCallMade /\ TimerReset
    /\ (op.name = "invoke" /\ op.timer # NoTimer) =>
          /\ Len(calls) = op.nCalls
          /\ ~Refused => TimerReset
    /\ op.name = "later" => Len(calls) = op.nCalls

\* a second invocation arrived in the window opened by a leading-edge call
C2_Witness ==
  /\ immediate /\ op.name = "invoke" /\ op.timer # NoTimer /\ ~Refused
  /\ Len(calls) = 1 /\ calls[1].trigger = "leading"
  /\ calls[1].args # op.inArgs

\* C3: isPending is false on a fresh wrapper, true right after an invocation
\* that opened or extended a window, false right after the window elapsed,
\* after clear returned and after flush returned; and it is true exactly when
\* a timer is scheduled that has neither fired nor been cancelled.
C3_IsPending ==
  /\ isPending <=> timers # {}
  /\ isPending => timeoutId \in timers
  /\ op.name = "init" => ~isPending
  /\ (op.name = "invoke" /\ ret.kind # "rejected") => isPending
  /\ op.name \in {"later", "clear"} => ~isPending
  /\ (op.name = "flush" /\ ret.kind # "throw") => ~isPending

\* clear has just closed an open window
C3_Witness == op.name = "clear" /\ op.timer # NoTimer /\ ~isPending

\* C4: once clear has closed a window, no later execution of the target belongs
\* to that window, and none gets the arguments that were pending at the clear.
C4_ClearCancels ==
  \A w \in 1..win :
    wlog[w].closedBy = "clear" =>
      \A i \in (wlog[w].callsAtClose + 1)..Len(calls) :
        /\ calls[i].win # w
        /\ wlog[w].invAtClose # 0 => calls[i].inv # wlog[w].invAtClose

\* a window with pending arguments was cleared, and the target ran afterwards
C4_Witness ==
  \E w \in 1..win :
    /\ wlog[w].closedBy = "clear"
    /\ wlog[w].invAtClose # 0
    /\ Len(calls) > wlog[w].callsAtClose

\* C5 as stated: in both strategies and both modes, flush with a window open
\* invokes the target once, at once, with the arguments and receiver of the
\* window's last invocation, and closes the window (no timer is left to fire);
\* flush with no window open does not invoke the target and returns nothing
\* (sync) or a promise resolved with undefined (async).
C5_Flush ==
  op.name = "flush" =>
    IF op.timer # NoTimer
    THEN /\ Len(calls) = op.nCalls + 1
         /\ LastCall.trigger = "flush"
         /\ LastCall.args = LastInvoke(win).args
         /\ LastCall.this = LastInvoke(win).this
         /\ ~isPending
         /\ timers = {}
    ELSE /\ Len(calls) = op.nCalls
         /\ ret = IF isAsync THEN Ret("resolved", Undefined, 0) ELSE RetNone
         /\ ~isPending

\* C6: async strategy, trailing-edge mode: a window closed by the timer or by
\* flush has exactly one execution, and once that execution has settled every
\* promise handed out in the window, by an invocation or by the closing flush,
\* is settled with that execution's outcome: all resolved with its value or
\* all rejected with its error.
C6_SharedOutcome ==
  (isAsync /\ ~immediate) =>
    \A w \in 1..win :
      wlog[w].closedBy \in {"timer", "flush"} =>
        \E e \in 1..Len(execs) :
          /\ execs[e].win = w
          /\ \A f \in 1..Len(execs) : execs[f].win = w => f = e
          /\ execs[e].done =>
               \A p \in 1..Len(promises) :
                 promises[p].win = w =>
                   /\ promises[p].v = execs[e].outcome
                   /\ promises[p].st = IF execs[e].outcome.k = "ret"
                                       THEN "resolved" ELSE "rejected"

\* a flush closed a window of two invocations and its execution was rejected
C6_Witness ==
  /\ isAsync /\ ~immediate
  /\ \E w \in 1..win, e \in 1..Len(execs) :
       /\ wlog[w].closedBy = "flush"
       /\ execs[e].win = w /\ execs[e].done /\ execs[e].outcome.k = "err"
       /\ Cardinality({p \in 1..Len(promises) : promises[p].win = w}) = 3

\* C7: async strategy, token already aborted when the wrapper is invoked: the
\* invocation returns a promise rejected with the abort reason, the target is
\* not invoked, and the timer handle and isPending are what they were.
C7_RefusedWhenAborted ==
  Refused =>
    /\ ret = Ret("rejected", reason, 0)
    /\ Len(calls) = op.nCalls
    /\ timeoutId = op.timer
    /\ timers = IF op.timer = NoTimer THEN {} ELSE {op.timer}

\* an invocation was refused while a window was open
C7_Witness == Refused /\ op.timer # NoTimer /\ ret.kind = "rejected"

\* C8: async strategy, trailing-edge mode, with a token: an abort that finds a
\* window open rejects every queued promise with the abort reason, cancels the
\* timer and empties the queue; the target is never invoked for a window
\* closed by an abort, and every promise of such a window is rejected with the
\* abort reason. This holds for every window, first or later.
C8_AbortRejectsQueue ==
  (isAsync /\ ~immediate /\ signal) =>
    /\ (op.name = "abort" /\ op.timer # NoTimer) =>
         /\ \A i \in 1..Len(op.queued) :
              /\ promises[op.queued[i]].st = "rejected"
              /\ promises[op.queued[i]].v = reason
         /\ Len(op.queued) > 0
         /\ ~isPending
         /\ timers = {}
         /\ promiseHandlers = <<>>
         /\ wlog[win].closedBy = "abort"
    /\ \A w \in 1..win :
         wlog[w].closedBy = "abort" =>
           /\ CallsOf(w) = {}
           /\ \A p \in 1..Len(promises) :
                promises[p].win = w =>
                  promises[p].st = "rejected" /\ promises[p].v = reason

\* the second window of the wrapper was closed by an abort
C8_Witness ==
  /\ isAsync /\ ~immediate /\ signal
  /\ win = 2
  /\ wlog[1].closedBy \in {"timer", "flush", "clear"}
  /\ wlog[2].closedBy = "abort"
  /\ \E p \in 1..Len(promises) : promises[p].win = 2

\* the closure variables and the timer after the step are those of g
SameWrapperState(g) ==
  /\ timeoutId' = g.timeoutId
  /\ timers' = g.timers
  /\ lastArgs' = g.lastArgs
  /\ lastThis' = g.lastThis
  /\ promiseHandlers' = g.promiseHandlers

\* C9 as stated: whatever triggers an execution (leading-edge invocation, timer,
\* flush), in both strategies, a step in which the target throws or its promise
\* is rejected leaves the timer handle, the timer, the pending arguments and
\* receiver and the queue as the same step with a succeeding target leaves them.
C9_FailureLikeSuccess ==
  [][ /\ (ret'.kind = "throw" /\ op'.name = "invoke") =>
           SameWrapperState(debouncedSync(
             Begin(Cur, "invoke", op'.inThis, op'.inArgs),
             op'.inThis, op'.inArgs, "ok"))
      /\ (ret'.kind = "throw" /\ op'.name = "later") =>
           SameWrapperState(later(
             [Begin(Cur, "later", Undefined, Undefined)
                EXCEPT !.timers = @ \ {timeoutId}], "ok"))
      /\ (ret'.kind = "throw" /\ op'.name = "flush") =>
           SameWrapperState(flushSync(
             Begin(Cur, "flush", Undefined, Undefined), "ok"))
      /\ (op'.name = "settle" /\ Len(execs') = Len(execs)) =>
           \A e \in 1..Len(execs) :
             (~execs[e].done /\ execs'[e].done /\ execs'[e].outcome.k = "err") =>
               SameWrapperState(settle(
                 Begin(Cur, "settle", Undefined, Undefined), e, "ok"))
    ]_vars

\* the value stored by the latest execution of a sync target that returned
LastReturned ==
  LET S == {i \in 1..Len(calls) : ~calls[i].threw}
  IN  IF S = {} THEN Undefined
      ELSE RetOf(CHOOSE i \in S : \A j \in S : j <= i)

\* C10 as stated: sync strategy: an invocation that triggers a leading-edge
\* execution returns the value that execution produced (or raises what it
\* threw); every other invocation returns undefined.
C10_Original ==
  (~isAsync /\ op.name = "invoke") =>
    IF Len(calls) = op.nCalls + 1
    THEN ret = IF LastCall.threw THEN Ret("throw", ErrOf(Len(calls)), 0)
               ELSE Ret("value", RetOf(Len(calls)), 0)
    ELSE ret = Ret("value", Undefined, 0)

\* C10 amended: sync strategy: an invocation that triggers a leading-edge
\* execution returns the value that execution produced (or raises what it
\* threw); every other invocation returns the value of the latest execution
\* that returned, whatever triggered it, and undefined if there was none.
C10_ReturnsStoredResult ==
  (~isAsync /\ op.name = "invoke") =>
    IF Len(calls) = op.nCalls + 1
    THEN ret = IF LastCall.threw THEN Ret("throw", ErrOf(Len(calls)), 0)
               ELSE Ret("value", RetOf(Len(calls)), 0)
    ELSE ret = Ret("value", LastReturned, 0)

\* a trailing-edge invocation returned the result of an earlier window
C10_Witness ==
  /\ ~isAsync /\ ~immediate /\ op.name = "invoke"
  /\ ret.kind = "value" /\ ret.v # Undefined

\* C11: async strategy: a promise that was in the queue when clear was called
\* is never resolved and never rejected afterwards, whatever follows; and
\* clear raises nothing.
C11_ClearNeverSettles ==
  isAsync =>
    /\ \A p \in 1..Len(promises) :
         promises[p].cleared => promises[p].st = "pending"
    /\ op.name = "clear" => ret = RetNone

\* a queued promise was dropped by clear and a later promise has been settled
C11_Witness ==
  /\ isAsync
  /\ \E p, q \in 1..Len(promises) :
       /\ promises[p].cleared
       /\ q > p
       /\ promises[q].st # "pending"

\* C12 as stated: async strategy, immediate mode, no clear and no abort: once
\* the leading-edge execution of a window has settled, every promise returned
\* by an invocation made in that window, the later callers' included, is
\* settled with the outcome of that execution.
C12_LateCallersGetLeadingOutcome ==
  (isAsync /\ immediate /\ ~aborted) =>
    \A e \in 1..Len(execs) :
      (execs[e].trigger = "leading" /\ execs[e].done) =>
        \A p \in 1..Len(promises) :
          (/\ promises[p].win = execs[e].win
           /\ promises[p].kind = "invoke"
           /\ ~promises[p].cleared
           /\ wlog[execs[e].win].closedBy # "clear") =>
            /\ promises[p].st = IF execs[e].outcome.k = "ret"
                                THEN "resolved" ELSE "rejected"
            /\ promises[p].v = execs[e].outcome

\* what the caller got is a promise: one made by the wrapper, or the one a
\* promise-returning target handed back through `result`
GotPromise ==
  \/ ret.kind \in {"promise", "resolved", "rejected"}
  \/ fn = "promiseReturning" /\ ret.kind = "value" /\ ret.v.k = "ret"

\* C13 as stated: for every target that returns a promise, declared async or
\* not, the async strategy is selected: every invocation of the wrapper returns
\* a promise and flush returns a promise.
C13_PromiseTargetsAreAsync ==
  (fn \in {"AsyncFunction", "promiseReturning"} /\ ret.kind # "throw") =>
    /\ op.name = "invoke" => GotPromise
    /\ op.name = "flush" => GotPromise

\* C14 as stated: at most one execution of the target belongs to any one
\* window, whether it was triggered by the leading edge, by the timer or by
\* flush.
C14_OneExecutionPerWindow ==
  \A w \in 1..win : Cardinality(CallsOf(w)) <= 1

\* C15 as stated: async strategy: an invocation made while the token is
\* already aborted leaves the timer handle, the pending arguments and receiver,
\* the queue and the leading value as they were.
C15_RefusedChangesNothing ==
  [][ (isAsync /\ signal /\ aborted /\ op'.name = "invoke") =>
        /\ timeoutId' = timeoutId
        /\ timers' = timers
        /\ lastArgs' = lastArgs
        /\ lastThis' = lastThis
        /\ promiseHandlers' = promiseHandlers
        /\ leadingValue' = leadingValue
    ]_vars

\* the consequence C15 draws: the target never gets the arguments of an
\* invocation that was refused (one that no window has recorded)
C15_RefusedArgsNeverRun ==
  \A i \in 1..Len(calls) :
    calls[i].inv # 0 =>
      \E w \in 1..win : \E j \in 1..Len(wlog[w].invokes) :
        wlog[w].invokes[j].inv = calls[i].inv

\* C16: at most one timer scheduled by the wrapper is live, and a live timer
\* is the one held in timeoutId: no timer that the handle has let go can fire.
C16_OneLiveTimer ==
  /\ Cardinality(timers) <= 1
  /\ timers # {} => timers = {timeoutId}
  /\ (op.name = "invoke" /\ ~Refused) => op.timer \notin timers

\* an invocation found a timer running and replaced it
C16_Witness ==
  /\ op.name = "invoke" /\ op.timer # NoTimer
  /\ timeoutId # op.timer /\ timers = {timeoutId}

\* the promises awaiting execution e: its batch, or the subscriber of a
\* leading value
BatchOf(e) == {execs[e].handlers[i] : i \in 1..Len(execs[e].handlers)}

\* C17: async strategy: an abort does not touch an execution that has
\* started: a promise bound to a leading-edge execution or handed off to a
\* timer or flush execution stays pending until that execution settles and
\* then has its outcome, never the abort reason, also when the token is
\* aborted in between; the abort rejects promises of the queue only.
C17_AbortSparesStarted ==
  isAsync =>
    /\ \A e \in 1..Len(execs) : \A p \in BatchOf(e) :
         IF execs[e].done
         THEN promises[p].v = execs[e].outcome /\ promises[p].by = e
         ELSE promises[p].st = "pending"
    /\ op.name = "abort" =>
         \A p \in 1..Len(promises) :
           promises[p].v.k = "abort" =>
             \E i \in 1..Len(op.queued) : op.queued[i] = p

\* the token was aborted while an execution was in flight, and the execution
\* then settled the promise handed off to it
C17_Witness ==
  /\ isAsync /\ aborted /\ op.name = "settle"
  /\ \E e \in 1..Len(execs) :
       /\ execs[e].done /\ execs[e].trigger = "timer"
       /\ \E p \in BatchOf(e) : promises[p].by = e

\* the executions started by run() (timer or flush) that have not settled
InFlight ==
  {e \in 1..Len(execs) : ~execs[e].done /\ execs[e].trigger # "leading"}

\* C19 as stated: async strategy: at most one execution started by the timer
\* or by flush is in flight at a time; none starts while an earlier one is
\* unsettled.
C19_Original ==
  isAsync => Cardinality({e \in InFlight : BatchOf(e) # {}}) <= 1

\* C19 amended: async strategy: executions are not serialized, several may be
\* in flight at once, but each one awaits a batch of its own: no promise is
\* in the batch of two executions, nor in a batch and still in the queue.
C19_DisjointBatches ==
  isAsync =>
    /\ \A e, f \in 1..Len(execs) : e # f => BatchOf(e) \cap BatchOf(f) = {}
    /\ \A e \in 1..Len(execs) :
         \A i \in 1..Len(promiseHandlers) : promiseHandlers[i] \notin BatchOf(e)

\* two executions started by the timer are in flight, each with its batch
C19_Witness ==
  /\ isAsync
  /\ \E e, f \in InFlight :
       e # f /\ BatchOf(e) # {} /\ BatchOf(f) # {}

\* ------------------------------------------------------------ longer runs
\* An async wrapper in immediate mode, without a token, invoked once more
\* than MaxCalls: a caller queued in one window, the window elapsing, and a
\* flush of the next window need three invocations.
MaxCallsLong == MaxCalls + 1

InitLong == Init /\ fn = "AsyncFunction" /\ immediate /\ ~signal

InvokeLong(context, args) ==
  /\ nInvokes < MaxCallsLong
  /\ Commit(debouncedAsync(Begin(Cur, "invoke", context, args), context, args))

NextLong ==
  \/ \E in \in Inputs : InvokeLong(in.this, in.args)
  \/ \E id \in timers, o \in Outcomes : TimerFire(id, o)
  \/ Clear
  \/ \E o \in Outcomes : Flush(o)
  \/ \E e \in 1..Len(execs), o \in Outcomes : Settle(e, o)

SpecLong == InitLong /\ [][NextLong]_vars

\* C20 as stated: async strategy, both modes: a promise returned by an
\* invocation is settled only by an execution of the window in which the
\* invocation was made, never by one of an earlier or a later window.
C20_SettledByOwnWindow ==
  isAsync =>
    \A p \in 1..Len(promises) :
      (promises[p].kind = "invoke" /\ promises[p].by # 0) =>
        execs[promises[p].by].win = promises[p].win

\* ------------------------------------------------------------ two wrappers
\* A sync wrapper and an async wrapper built with the same `immediate` and no
\* token, given the same operations in the same order. The variables of the
\* single wrapper above stay as debounce() left them.
wrapper == <<fn, isAsync, immediate, signal, timeoutId, lastArgs, lastThis,
             promiseHandlers, leadingValue, result, timers, aborted, reason,
             listening, promises, execs, calls, win, wlog, lastInv, nInvokes,
             op, ret>>

PairInit == Init /\ fn = "plain" /\ ~signal

PairInvoke(context, args, o) ==
  /\ syncW.nInvokes < MaxCalls
  /\ syncW' = debouncedSync(Begin(syncW, "invoke", context, args),
                            context, args, o)
  /\ asyncW' = debouncedAsync(Begin(asyncW, "invoke", context, args),
                              context, args)
  /\ UNCHANGED wrapper

\* the delay elapses for both
PairTimer(i, j, o) ==
  /\ i \in syncW.timers
  /\ j \in asyncW.timers
  /\ syncW' = later([Begin(syncW, "later", Undefined, Undefined)
                       EXCEPT !.timers = @ \ {i}], o)
  /\ asyncW' = later([Begin(asyncW, "later", Undefined, Undefined)
                        EXCEPT !.timers = @ \ {j}], o)
  /\ UNCHANGED wrapper

PairClear ==
  /\ syncW' = clearSync(Begin(syncW, "clear", Undefined, Undefined))
  /\ asyncW' = clearAsync(Begin(asyncW, "clear", Undefined, Undefined))
  /\ UNCHANGED wrapper

PairFlush(o) ==
  /\ Len(syncW.calls) < MaxRuns
  /\ Len(asyncW.calls) < MaxRuns
  /\ syncW' = flushSync(Begin(syncW, "flush", Undefined, Undefined), o)
  /\ asyncW' = flushAsync(Begin(asyncW, "flush", Undefined, Undefined), o)
  /\ UNCHANGED wrapper

\* the promise of an execution of the async target settles
PairSettle(e, o) ==
  /\ e \in 1..Len(asyncW.execs)
  /\ ~asyncW.execs[e].done
  /\ asyncW' = settle(Begin(asyncW, "settle", Undefined, Undefined), e, o)
  /\ UNCHANGED <<wrapper, syncW>>

PairNext ==
  \/ \E in \in Inputs, o \in Outcomes : PairInvoke(in.this, in.args, o)
  \/ \E i \in syncW.timers, j \in asyncW.timers, o \in Outcomes :
       PairTimer(i, j, o)
  \/ PairClear
  \/ \E o \in Outcomes : PairFlush(o)
  \/ \E e \in 1..Len(asyncW.execs), o \in Outcomes : PairSettle(e, o)

PairSpec == PairInit /\ [][PairNext]_vars

\* C18 as stated: with the same `immediate` and the same operations, the sync
\* and the async wrapper have invoked their targets the same number of times,
\* at the same operations and with the same arguments and receivers, and have
\* the same isPending and the same pending arguments after every operation.
C18_SameCoalescing ==
  /\ Len(syncW.calls) = Len(asyncW.calls)
  /\ \A i \in 1..Len(syncW.calls) :
       i <= Len(asyncW.calls) =>
         /\ syncW.calls[i].args = asyncW.calls[i].args
         /\ syncW.calls[i].this = asyncW.calls[i].this
         /\ syncW.calls[i].trigger = asyncW.calls[i].trigger
  /\ (syncW.timeoutId # NoTimer) = (asyncW.timeoutId # NoTimer)
  /\ syncW.lastArgs = asyncW.lastArgs

====
